---- MODULE Spec2Model ----
(***************************************************************************)
(* Model of grandpybot/chatbots/chatbotfactory.py: the two chat bot        *)
(* factories OpenStreetMapBotFactory and OpenMediaWikiBotFactory.          *)
(*                                                                         *)
(* A JSON object is a record (a function from its keys), a JSON array a    *)
(* sequence.  A Python call either returns or raises: Value(v) / Raise(e). *)
(* What requests.get does is the environment's choice: it raises           *)
(* ([exc |-> ...]) or returns a response carrying a status code and a      *)
(* body that is JSON ([status_code, json]) or is not ([status_code, text]).*)
(***************************************************************************)
EXTENDS Integers, Sequences, FiniteSets, TLC

\* Number of build / get_object calls a behaviour makes.
MaxCalls == 2

None == "None"

Raise(e) == [exc |-> e]
Value(v) == [value |-> v]
Raised(o) == "exc" \in DOMAIN o
Returned(o) == "value" \in DOMAIN o

----------------------------------------------------------------------------
(* Python built-ins used by the code *)

Digit(d) ==
    CASE d = 0 -> "0" [] d = 1 -> "1" [] d = 2 -> "2" [] d = 3 -> "3"
      [] d = 4 -> "4" [] d = 5 -> "5" [] d = 6 -> "6" [] d = 7 -> "7"
      [] d = 8 -> "8" [] d = 9 -> "9"

\* Faulty variant: the digits least significant first.
RECURSIVE str_reversed(_)
str_reversed(n) ==
    IF n < 10 THEN Digit(n) ELSE Digit(n % 10) \o str_reversed(n \div 10)

\* str(int) for the non-negative page ids: the decimal digits, most
\* significant first.
RECURSIVE str(_)
str(n) ==
    IF n < 10 THEN Digit(n) ELSE str(n \div 10) \o Digit(n % 10)

\* Faulty variant: the upper end taken as exclusive by the caller, one too far.
randint_halfopen(a, b) == a .. (b + 1)

\* random.randint(a, b): the values a draw can return; the empty set when
\* the range is empty, where randint raises ValueError.
randint(a, b) == a .. b

\* list[i]: IndexError unless -len <= i < len.
IndexError(list, i) == ~(i \in (0 - Len(list)) .. (Len(list) - 1))

Item(list, i) == IF i >= 0 THEN list[i + 1] ELSE list[Len(list) + i + 1]

\* Faulty variant: the request is sent twice.
Get_retry(tr, url) == Append(Append(tr, url), url)

\* requests.get(url): one outbound request, recorded in the call's trace.
Get(tr, url) == Append(tr, url)

----------------------------------------------------------------------------
(* The remote services: what a requests.get can come back with *)

SearchTerms == {"Paris", "Lyon"}
Coordinates == {<<"48.85", "2.35">>, <<"45.75", "4.83">>}

Paris == [display_name |-> "Paris, France", lat |-> "48.85", lon |-> "2.35"]
Lyon == [display_name |-> "Lyon, France", lat |-> "45.75", lon |-> "4.83"]
NoName == [licence |-> "ODbL", lat |-> "48.85", lon |-> "2.35"]

ConnectionError == [exc |-> "ConnectionError"]
NotJson(code) == [status_code |-> code, text |-> "<html>"]
Json(code, body) == [status_code |-> code, json |-> body]

GeocodeOutcomes ==
    { ConnectionError, NotJson(500),
      Json(200, <<>>), Json(200, <<Paris>>), Json(200, <<Paris, Lyon>>),
      Json(200, <<Lyon, Paris>>), Json(200, <<NoName>>),
      Json(500, <<Paris>>) }

Geosearch(items) == [batchcomplete |-> "", query |-> [geosearch |-> items]]

GeoSearchOutcomes ==
    { ConnectionError, NotJson(200),
      Json(200, [batchcomplete |-> ""]),
      Json(200, [batchcomplete |-> "", query |-> [normalized |-> ""]]),
      Json(200, Geosearch(<<>>)),
      Json(200, Geosearch(<<[pageid |-> 7]>>)),
      Json(200, Geosearch(<<[pageid |-> 7], [pageid |-> 42]>>)),
      Json(200, Geosearch(<<[title |-> "Louvre"]>>)),
      Json(500, Geosearch(<<[pageid |-> 42]>>)) }

Pages(p) == [batchcomplete |-> "", query |-> [pages |-> p]]

BothPages ==
    [p \in {"7", "42", "24"} |->
        [extract |-> CASE p = "7" -> "Extract of 7."
                       [] p = "42" -> "Extract of 42."
                       [] p = "24" -> "Extract of 24."]]

QueryOutcomes ==
    { ConnectionError, NotJson(200),
      Json(200, [batchcomplete |-> ""]),
      Json(200, [batchcomplete |-> "", query |-> [normalized |-> ""]]),
      Json(200, Pages(BothPages)),
      Json(200, Pages([p \in {"7"} |-> [extract |-> "Extract of 7."]])),
      Json(200, Pages([p \in {"7", "42"} |-> [title |-> "Louvre"]])),
      Json(500, Pages(BothPages)) }

----------------------------------------------------------------------------
(* The code, expression by expression *)

OpenStreetMapBot(display_name, lat, lon) ==
    [display_name |-> display_name, latitude |-> lat, longitude |-> lon]

OpenMediaWikiBot(intro) == [intro |-> intro]

SearchUrl(term) ==
    "https://nominatim.openstreetmap.org/search?q=" \o term
        \o "&addressdetails=1&countrycodes=fr&limit=1&format=json"

GeoSearchUrl(lat, lon) ==
    "https://fr.wikipedia.org/w/api.php?action=query&list=geosearch&gscoord="
        \o lat \o "|" \o lon \o "&gsradius=10000&gslimit=10&format=json"

QueryUrlHead ==
    "https://fr.wikipedia.org/w/api.php?action=query&prop=extracts&exsentences=3&pageids="

QueryUrlTail == "&format=json"

QueryUrl(chosen) == QueryUrlHead \o str(chosen) \o QueryUrlTail

RandomDrawEvent == "random.randint"

\* response.json()
json(r) ==
    IF Raised(r) THEN r
    ELSE IF "json" \in DOMAIN r THEN Value(r.json)
    ELSE Raise("JSONDecodeError")

\* Faulty variant: an empty array yields a blank place instead of IndexError.
perform_search_default(r) ==
    IF Raised(json(r)) THEN json(r)
    ELSE IF IndexError(json(r).value, 0)
         THEN Value([display_name |-> "", lat |-> "", lon |-> ""])
    ELSE Value(Item(json(r).value, 0))

\* Faulty variant: json()[-1], the last element.
perform_search_last(r) ==
    IF Raised(json(r)) THEN json(r)
    ELSE IF IndexError(json(r).value, -1) THEN Raise("IndexError")
    ELSE Value(Item(json(r).value, -1))

\* OpenStreetMapBotFactory.perform_search: osm_response.json()[0]
perform_search_result(r) ==
    IF Raised(json(r)) THEN json(r)
    ELSE IF IndexError(json(r).value, 0) THEN Raise("IndexError")
    ELSE Value(Item(json(r).value, 0))

\* OpenStreetMapBotFactory.build, after the search
build_result(obj) ==
    IF {"display_name", "lat", "lon"} \subseteq DOMAIN obj
    THEN Value(OpenStreetMapBot(obj["display_name"], obj["lat"], obj["lon"]))
    ELSE Raise("KeyError")

\* Faulty variant: a request that raised is replaced by a stock answer.
perform_geo_search_fallback(r) ==
    IF Raised(r) THEN Value(Geosearch(<<[pageid |-> 7]>>)) ELSE json(r)

\* OpenMediaWikiBotFactory.perform_geo_search: omw_response.json()
perform_geo_search_result(r) == json(r)

\* OpenMediaWikiBotFactory.perform_query_search: omw_response.json()
perform_query_search_result(r) == json(r)

\* The loop that fills page_ids
collect_page_ids(obj) ==
    IF "query" \in DOMAIN obj /\ "geosearch" \in DOMAIN obj["query"]
    THEN LET items == obj["query"]["geosearch"] IN
         IF \E i \in 1 .. Len(items) : "pageid" \notin DOMAIN items[i]
         THEN Raise("KeyError")
         ELSE Value([i \in 1 .. Len(items) |-> items[i]["pageid"]])
    ELSE Value(<<>>)

\* Faulty variant: a missing key yields an empty extract instead of KeyError.
intro_result_default(obj, chosen) ==
    IF /\ "query" \in DOMAIN obj
       /\ "pages" \in DOMAIN obj["query"]
       /\ str(chosen) \in DOMAIN obj["query"]["pages"]
       /\ "extract" \in DOMAIN obj["query"]["pages"][str(chosen)]
    THEN Value(OpenMediaWikiBot(obj["query"]["pages"][str(chosen)]["extract"]))
    ELSE Value(OpenMediaWikiBot(""))

\* omw_object["query"]["pages"][str(chosen_page_id)]["extract"] and the
\* construction of the bot
intro_result(obj, chosen) ==
    IF /\ "query" \in DOMAIN obj
       /\ "pages" \in DOMAIN obj["query"]
       /\ str(chosen) \in DOMAIN obj["query"]["pages"]
       /\ "extract" \in DOMAIN obj["query"]["pages"][str(chosen)]
    THEN Value(OpenMediaWikiBot(obj["query"]["pages"][str(chosen)]["extract"]))
    ELSE Raise("KeyError")

----------------------------------------------------------------------------
(* State *)

VARIABLES
    search_term,      \* OpenStreetMapBotFactory.search_term
    latitude,         \* OpenMediaWikiBotFactory.latitude
    longitude,        \* OpenMediaWikiBotFactory.longitude
    pc,               \* where the call in progress stands ("idle": none)
    osm_object,       \* local of OpenStreetMapBotFactory.build
    omw_object,       \* local of OpenMediaWikiBotFactory.build
    page_ids,         \* local of OpenMediaWikiBotFactory.build
    random_index,     \* local of OpenMediaWikiBotFactory.build
    chosen_page_id,   \* local of OpenMediaWikiBotFactory.build
    responses,        \* what each requests.get of this call came back with
    trace,            \* the requests and draws of this call, in order
    history           \* the finished calls, in order

locals == <<osm_object, omw_object, page_ids, random_index, chosen_page_id>>
fields == <<search_term, latitude, longitude>>
vars == <<search_term, latitude, longitude, pc, osm_object, omw_object,
          page_ids, random_index, chosen_page_id, responses, trace, history>>

Init ==
    /\ search_term \in SearchTerms
    /\ \E c \in Coordinates : latitude = c[1] /\ longitude = c[2]
    /\ pc = "idle"
    /\ osm_object = None
    /\ omw_object = None
    /\ page_ids = None
    /\ random_index = None
    /\ chosen_page_id = None
    /\ responses = <<>>
    /\ trace = <<>>
    /\ history = <<>>

\* The call in progress ends with outcome out: it is recorded with the
\* locals build had assigned (frame), and the frame is gone.
Finish(factory, resps, tr, frame, out) ==
    /\ history' = Append(history,
                     [factory |-> factory, responses |-> resps, trace |-> tr,
                      frame |-> frame, outcome |-> out])
    /\ pc' = "idle"
    /\ osm_object' = None
    /\ omw_object' = None
    /\ page_ids' = None
    /\ random_index' = None
    /\ chosen_page_id' = None
    /\ responses' = <<>>
    /\ trace' = <<>>

----------------------------------------------------------------------------
(* OpenStreetMapBotFactory *)

\* ChatBotFactory.get_object: return self.build()
OSM_get_object ==
    /\ pc = "idle"
    /\ Len(history) < MaxCalls
    /\ pc' = "osm_get_object"
    /\ UNCHANGED <<fields, locals, responses, trace, history>>

\* build is entered by the caller or from get_object
OSM_build ==
    /\ \/ pc = "idle" /\ Len(history) < MaxCalls
       \/ pc = "osm_get_object"
    /\ pc' = "osm_perform_search"
    /\ UNCHANGED <<fields, locals, responses, trace, history>>

OsmDone == {i \in DOMAIN history : history[i].factory = "osm"}

\* Faulty variant: a later call reuses the first outcome without a request.
perform_search_cached(r) ==
    /\ pc = "osm_perform_search"
    /\ IF OsmDone # {}
       THEN Finish("osm", responses, trace, [self |-> "osm"],
                   history[CHOOSE i \in OsmDone : TRUE].outcome)
       ELSE LET tr == Get(trace, SearchUrl(search_term))
                resps == Append(responses, r)
                res == perform_search_result(r)
            IN IF Raised(res)
               THEN Finish("osm", resps, tr, [self |-> "osm"], res)
               ELSE /\ osm_object' = res.value
                    /\ pc' = "osm_construct"
                    /\ trace' = tr
                    /\ responses' = resps
                    /\ UNCHANGED <<omw_object, page_ids, random_index,
                                   chosen_page_id, history>>
    /\ UNCHANGED fields

\* osm_object = self.perform_search(self.search_term)
perform_search(r) ==
    /\ pc = "osm_perform_search"
    /\ LET tr == Get(trace, SearchUrl(search_term))
           resps == Append(responses, r)
           res == perform_search_result(r)
       IN IF Raised(res)
          THEN Finish("osm", resps, tr, [self |-> "osm"], res)
          ELSE /\ osm_object' = res.value
               /\ pc' = "osm_construct"
               /\ trace' = tr
               /\ responses' = resps
               /\ UNCHANGED <<omw_object, page_ids, random_index,
                              chosen_page_id, history>>
    /\ UNCHANGED fields

OSM_construct ==
    /\ pc = "osm_construct"
    /\ Finish("osm", responses, trace, [self |-> "osm"],
              build_result(osm_object))
    /\ UNCHANGED fields

----------------------------------------------------------------------------
(* OpenMediaWikiBotFactory *)

\* ChatBotFactory.get_object: return self.build()
OMW_get_object ==
    /\ pc = "idle"
    /\ Len(history) < MaxCalls
    /\ pc' = "omw_get_object"
    /\ UNCHANGED <<fields, locals, responses, trace, history>>

\* build is entered by the caller or from get_object
OMW_build ==
    /\ \/ pc = "idle" /\ Len(history) < MaxCalls
       \/ pc = "omw_get_object"
    /\ pc' = "omw_perform_geo_search"
    /\ UNCHANGED <<fields, locals, responses, trace, history>>

perform_geo_search(r) ==
    /\ pc = "omw_perform_geo_search"
    /\ LET tr == Get(trace, GeoSearchUrl(latitude, longitude))
           resps == Append(responses, r)
           res == perform_geo_search_result(r)
       IN IF Raised(res)
          THEN Finish("omw", resps, tr, [self |-> "omw"], res)
          ELSE /\ omw_object' = res.value
               /\ pc' = "omw_collect"
               /\ trace' = tr
               /\ responses' = resps
               /\ UNCHANGED <<osm_object, page_ids, random_index,
                              chosen_page_id, history>>
    /\ UNCHANGED fields

OMW_collect ==
    /\ pc = "omw_collect"
    /\ LET res == collect_page_ids(omw_object)
       IN IF Raised(res)
          THEN Finish("omw", responses, trace, [self |-> "omw"], res)
          ELSE /\ page_ids' = res.value
               /\ pc' = "omw_draw"
               /\ UNCHANGED <<osm_object, omw_object, random_index,
                              chosen_page_id, responses, trace, history>>
    /\ UNCHANGED fields

\* Faulty variant: no candidate yields an empty result instead of ValueError.
OMW_draw_silent ==
    /\ pc = "omw_draw"
    /\ IF randint(0, Len(page_ids) - 1) = {}
       THEN Finish("omw", responses, trace,
                   [self |-> "omw", page_ids |-> page_ids],
                   Value(OpenMediaWikiBot("")))
       ELSE \E idx \in randint(0, Len(page_ids) - 1) :
              LET tr == Append(trace, RandomDrawEvent)
              IN IF IndexError(page_ids, idx)
                 THEN Finish("omw", responses, tr,
                             [self |-> "omw", page_ids |-> page_ids,
                              random_index |-> idx],
                             Raise("IndexError"))
                 ELSE /\ random_index' = idx
                      /\ chosen_page_id' = Item(page_ids, idx)
                      /\ pc' = "omw_perform_query_search"
                      /\ trace' = tr
                      /\ UNCHANGED <<osm_object, omw_object, page_ids,
                                     responses, history>>
    /\ UNCHANGED fields

\* random_index = random.randint(0, len(page_ids) - 1)
\* chosen_page_id = page_ids[random_index]
OMW_draw ==
    /\ pc = "omw_draw"
    /\ IF randint(0, Len(page_ids) - 1) = {}
       THEN Finish("omw", responses, trace,
                   [self |-> "omw", page_ids |-> page_ids],
                   Raise("ValueError"))
       ELSE \E idx \in randint(0, Len(page_ids) - 1) :
              LET tr == Append(trace, RandomDrawEvent)
              IN IF IndexError(page_ids, idx)
                 THEN Finish("omw", responses, tr,
                             [self |-> "omw", page_ids |-> page_ids,
                              random_index |-> idx],
                             Raise("IndexError"))
                 ELSE /\ random_index' = idx
                      /\ chosen_page_id' = Item(page_ids, idx)
                      /\ pc' = "omw_perform_query_search"
                      /\ trace' = tr
                      /\ UNCHANGED <<osm_object, omw_object, page_ids,
                                     responses, history>>
    /\ UNCHANGED fields

\* The locals of build once a page is chosen
Frame ==
    [self |-> "omw", page_ids |-> page_ids, random_index |-> random_index,
     chosen_page_id |-> chosen_page_id]

perform_query_search(r) ==
    /\ pc = "omw_perform_query_search"
    /\ LET tr == Get(trace, QueryUrl(chosen_page_id))
           resps == Append(responses, r)
           res == perform_query_search_result(r)
       IN IF Raised(res)
          THEN Finish("omw", resps, tr, Frame, res)
          ELSE /\ omw_object' = res.value
               /\ pc' = "omw_intro"
               /\ trace' = tr
               /\ responses' = resps
               /\ UNCHANGED <<osm_object, page_ids, random_index,
                              chosen_page_id, history>>
    /\ UNCHANGED fields

OMW_intro ==
    /\ pc = "omw_intro"
    /\ Finish("omw", responses, trace, Frame,
              intro_result(omw_object, chosen_page_id))
    /\ UNCHANGED fields

----------------------------------------------------------------------------

Next ==
    \/ OSM_get_object
    \/ OSM_build
    \/ \E r \in GeocodeOutcomes : perform_search(r)
    \/ OSM_construct
    \/ OMW_get_object
    \/ OMW_build
    \/ \E r \in GeoSearchOutcomes : perform_geo_search(r)
    \/ OMW_collect
    \/ OMW_draw
    \/ \E r \in QueryOutcomes : perform_query_search(r)
    \/ OMW_intro

Spec == Init /\ [][Next]_vars

----------------------------------------------------------------------------
(* Properties.  They read the finished calls off history and the call in   *)
(* progress off pc and the locals.                                         *)

Calls == DOMAIN history
OsmCalls == {i \in Calls : history[i].factory = "osm"}
OmwCalls == {i \in Calls : history[i].factory = "omw"}

\* The geocode response of a call is a JSON array with a first element
\* that carries the three fields.
HasFirstPlace(r) ==
    /\ "json" \in DOMAIN r
    /\ Len(r.json) > 0
    /\ {"display_name", "lat", "lon"} \subseteq DOMAIN r.json[1]

\* C1: for a non-empty geocode response array, OpenStreetMapBotFactory.build
\* returns a result whose display name, latitude and longitude are the
\* display_name, lat and lon of the array's first element, unchanged; no
\* other element and no status code has a say.
C1_FirstElementPassedThrough ==
    \A i \in OsmCalls :
        LET h == history[i] IN
        /\ HasFirstPlace(h.responses[1]) =>
              h.outcome = [value |->
                  [display_name |-> h.responses[1].json[1].display_name,
                   latitude |-> h.responses[1].json[1].lat,
                   longitude |-> h.responses[1].json[1].lon]]
        /\ Returned(h.outcome) => HasFirstPlace(h.responses[1])

C1_Witness ==
    \E i \in OsmCalls :
        /\ history[i].responses[1] = Json(200, <<Lyon, Paris>>)
        /\ history[i].outcome =
              [value |-> [display_name |-> "Lyon, France",
                          latitude |-> "45.75", longitude |-> "4.83"]]

\* C2: on an empty geocode array build ends in a failure and constructs no
\* PlaceResult; the constructor is reached, and a result returned, only
\* when the geocode response had a first element.
C2_EmptyGeocodeFails ==
    /\ \A i \in OsmCalls :
          LET h == history[i] IN
          /\ ("json" \in DOMAIN h.responses[1] /\ h.responses[1].json = <<>>)
                => Raised(h.outcome)
          /\ Returned(h.outcome) =>
                ("json" \in DOMAIN h.responses[1] /\ Len(h.responses[1].json) >= 1)
    /\ pc = "osm_construct" =>
          /\ "json" \in DOMAIN responses[1]
          /\ Len(responses[1].json) >= 1
          /\ osm_object = responses[1].json[1]

C2_Witness ==
    \E i \in OsmCalls :
        /\ history[i].responses = <<Json(200, <<>>)>>
        /\ history[i].outcome = Raise("IndexError")

\* The geosearch response yields no candidate: no query key, no geosearch
\* key under it, or an empty geosearch list.
NoCandidates(r) ==
    /\ "json" \in DOMAIN r
    /\ \/ "query" \notin DOMAIN r.json
       \/ "geosearch" \notin DOMAIN r.json.query
       \/ r.json.query.geosearch = <<>>

IsQueryUrl(e) == \E id \in {7, 42} : e = QueryUrlHead \o ToString(id) \o QueryUrlTail

\* C3: with an empty candidate sequence OpenMediaWikiBotFactory.build ends
\* in a failure: it returns no result and never issues the extract request.
C3_NoCandidatesFails ==
    /\ \A i \in OmwCalls :
          LET h == history[i] IN
          NoCandidates(h.responses[1]) =>
              /\ Raised(h.outcome)
              /\ Len(h.responses) = 1
              /\ \A k \in DOMAIN h.trace : ~IsQueryUrl(h.trace[k])
    /\ pc \in {"omw_perform_query_search", "omw_intro"} =>
          ~NoCandidates(responses[1])

C3_Witness ==
    /\ Len(history) = 2
    /\ history[1].factory = "omw"
    /\ history[2].factory = "omw"
    /\ history[1].responses = <<Json(200, [batchcomplete |-> ""])>>
    /\ history[2].responses = <<Json(200, Geosearch(<<>>))>>
    /\ history[1].outcome = Raise("ValueError")
    /\ history[2].outcome = Raise("ValueError")
    /\ history[1].frame.page_ids = <<>>

\* The pageid values of a geosearch response
PageIdsOf(r) ==
    {r.json.query.geosearch[k].pageid : k \in DOMAIN r.json.query.geosearch}

\* C4: for a non-empty candidate sequence every draw lies in
\* [0, length - 1], the selection never fails, and the chosen page id is
\* one of the pageid values of the geosearch response.
C4_DrawInRange ==
    /\ \A i \in OmwCalls :
          LET h == history[i] IN
          ("page_ids" \in DOMAIN h.frame /\ Len(h.frame.page_ids) > 0) =>
              /\ "random_index" \in DOMAIN h.frame
              /\ h.frame.random_index \in 0 .. (Len(h.frame.page_ids) - 1)
              /\ "chosen_page_id" \in DOMAIN h.frame
              /\ h.frame.chosen_page_id =
                    h.frame.page_ids[h.frame.random_index + 1]
              /\ h.frame.chosen_page_id \in PageIdsOf(h.responses[1])
              /\ h.outcome \notin {Raise("ValueError"), Raise("IndexError")}
    /\ pc \in {"omw_perform_query_search", "omw_intro"} =>
          /\ random_index \in 0 .. (Len(page_ids) - 1)
          /\ chosen_page_id = page_ids[random_index + 1]
          /\ chosen_page_id \in PageIdsOf(responses[1])

\* Every position is the chosen one in some run: both positions of a
\* two-candidate sequence.
C4_Witness ==
    /\ Len(history) = 2
    /\ history[1].factory = "omw"
    /\ history[2].factory = "omw"
    /\ history[1].responses[1] = history[2].responses[1]
    /\ "chosen_page_id" \in DOMAIN history[1].frame
    /\ "chosen_page_id" \in DOMAIN history[2].frame
    /\ history[1].frame.page_ids = <<7, 42>>
    /\ history[1].frame.random_index = 0
    /\ history[1].frame.chosen_page_id = 7
    /\ history[2].frame.random_index = 1
    /\ history[2].frame.chosen_page_id = 42

\* C5: a successful OpenMediaWikiBotFactory.build asked the extract of
\* exactly the chosen page id, and returns, unchanged, the extract found
\* under query.pages at the key that is the decimal string of that id.
C5_ExtractOfChosenPage ==
    \A i \in OmwCalls :
        LET h == history[i] IN
        Returned(h.outcome) =>
            /\ "chosen_page_id" \in DOMAIN h.frame
            /\ h.frame.chosen_page_id =
                  h.responses[1].json.query.geosearch[h.frame.random_index + 1].pageid
            /\ h.trace[Len(h.trace)] =
                  QueryUrlHead \o ToString(h.frame.chosen_page_id) \o QueryUrlTail
            /\ h.outcome = [value |-> [intro |->
                  h.responses[2].json.query.pages[
                      ToString(h.frame.chosen_page_id)].extract]]

C5_Witness ==
    \E i \in OmwCalls :
        /\ Returned(history[i].outcome)
        /\ history[i].frame.page_ids = <<7, 42>>
        /\ history[i].frame.chosen_page_id = 42
        /\ history[i].responses[2] = Json(200, Pages(BothPages))
        /\ history[i].outcome = [value |-> [intro |-> "Extract of 42."]]

\* C6: a successful OpenMediaWikiBotFactory.build made exactly two requests
\* and one draw, in the order geosearch request, draw, extract request; the
\* extract request is issued only once the geosearch response is in and a
\* candidate is chosen.
C6_TwoRequestsOneDrawInOrder ==
    /\ \A i \in OmwCalls :
          LET h == history[i] IN
          Returned(h.outcome) =>
              /\ Len(h.responses) = 2
              /\ h.trace = <<GeoSearchUrl(latitude, longitude),
                             RandomDrawEvent,
                             QueryUrlHead \o ToString(h.frame.chosen_page_id)
                                 \o QueryUrlTail>>
    /\ \A i \in OmwCalls :
          \A k \in DOMAIN history[i].trace :
              IsQueryUrl(history[i].trace[k]) =>
                  /\ k = 3
                  /\ history[i].trace[1] = GeoSearchUrl(latitude, longitude)
                  /\ history[i].trace[2] = RandomDrawEvent
    /\ pc = "omw_perform_query_search" =>
          /\ trace = <<GeoSearchUrl(latitude, longitude), RandomDrawEvent>>
          /\ Len(responses) = 1
          /\ chosen_page_id \in PageIdsOf(responses[1])
    /\ pc = "omw_intro" =>
          /\ Len(trace) = 3
          /\ Len(responses) = 2

C6_Witness ==
    \E i \in OmwCalls :
        /\ Returned(history[i].outcome)
        /\ Len(history[i].trace) = 3
        /\ history[i].trace[3] = QueryUrlHead \o "7" \o QueryUrlTail

\* Two runs saw the same remote: response by response, as far as both went.
SameRemote(h1, h2) ==
    \A k \in DOMAIN h1.responses \cap DOMAIN h2.responses :
        h1.responses[k] = h2.responses[k]

\* C7: with the same input and the same remote responses, two runs of
\* OpenMediaWikiBotFactory.build end the same way whenever the geosearch
\* response has exactly one candidate, and whenever they drew the same
\* index: the draw is the only source of non-determinism.  (That two runs
\* can differ with two candidates is C7_Witness.)
C7_OnlyTheDrawVaries ==
    \A i \in OmwCalls : \A j \in OmwCalls :
        LET h1 == history[i]
            h2 == history[j]
        IN SameRemote(h1, h2) =>
              /\ ("page_ids" \in DOMAIN h1.frame /\ Len(h1.frame.page_ids) = 1)
                    => h1.outcome = h2.outcome
              /\ ( /\ "random_index" \in DOMAIN h1.frame
                   /\ "random_index" \in DOMAIN h2.frame
                   /\ h1.frame.random_index = h2.frame.random_index )
                    => h1.outcome = h2.outcome
              /\ ("random_index" \notin DOMAIN h1.frame)
                    => h1.outcome = h2.outcome

C7_Witness ==
    /\ Len(history) = 2
    /\ history[1].factory = "omw"
    /\ history[2].factory = "omw"
    /\ history[1].responses = history[2].responses
    /\ Len(history[1].responses) = 2
    /\ Len(history[1].frame.page_ids) = 2
    /\ Returned(history[1].outcome)
    /\ Returned(history[2].outcome)
    /\ history[1].outcome # history[2].outcome

\* The request did not come back: requests.get raised.
RequestRaised(r) == Raised(r)

\* The request failed in the sense of the error taxonomy: it raised, or it
\* came back with a status outside 2xx.
RequestFailed(r) ==
    \/ Raised(r)
    \/ r.status_code \notin 200 .. 299

IsRequest(e) == e # RandomDrawEvent

\* The steps of a call end with its k-th request, issued once.
EndsAtRequest(h, k) ==
    /\ k = Len(h.responses)
    /\ Cardinality({n \in DOMAIN h.trace : IsRequest(h.trace[n])}) = k
    /\ IsRequest(h.trace[Len(h.trace)])

\* C8 as stated, with a failed request read as the taxonomy's
\* NetworkFailure (connection error, timeout, non-2xx): the build ends in a
\* failure, the request is not re-issued and no later step runs.
C8_Original ==
    \A i \in Calls :
        LET h == history[i] IN
        \A k \in DOMAIN h.responses :
            RequestFailed(h.responses[k]) =>
                /\ Raised(h.outcome)
                /\ EndsAtRequest(h, k)

\* C8, amended: when a requests.get raises (connection error, timeout), the
\* build ends with that same exception, the request is not re-issued, no
\* later step runs and no result is returned.
C8_RaisedRequestPropagates ==
    /\ \A i \in Calls :
          LET h == history[i] IN
          \A k \in DOMAIN h.responses :
              RequestRaised(h.responses[k]) =>
                  /\ h.outcome = h.responses[k]
                  /\ EndsAtRequest(h, k)
    /\ \A k \in DOMAIN responses : ~RequestRaised(responses[k])

C8_Witness ==
    /\ Len(history) = 2
    /\ history[1].factory = "omw"
    /\ history[1].responses = <<ConnectionError>>
    /\ history[1].trace = <<GeoSearchUrl(latitude, longitude)>>
    /\ history[1].outcome = Raise("ConnectionError")
    /\ history[2].factory = "omw"
    /\ Len(history[2].responses) = 2
    /\ history[2].responses[2] = ConnectionError
    /\ history[2].outcome = Raise("ConnectionError")

\* C9: every call on an OpenStreetMapBotFactory, through build or through
\* get_object, issues exactly one geocode request for the stored search
\* term (k calls, k requests), its outcome is decided by its own response
\* alone, and no step changes the stored input of a factory.
C9_NoCacheNoState ==
    /\ [](\A i \in OsmCalls :
            /\ history[i].trace = <<SearchUrl(search_term)>>
            /\ Len(history[i].responses) = 1
            /\ \A j \in OsmCalls :
                  history[i].responses = history[j].responses
                      => history[i].outcome = history[j].outcome)
    /\ [][ /\ search_term' = search_term
           /\ latitude' = latitude
           /\ longitude' = longitude ]_vars

C9_Witness ==
    /\ Len(history) = 2
    /\ history[1].factory = "osm"
    /\ history[2].factory = "osm"
    /\ history[1].responses = <<Json(200, <<Paris>>)>>
    /\ history[2].responses = <<Json(200, <<Lyon, Paris>>)>>
    /\ Returned(history[1].outcome)
    /\ Returned(history[2].outcome)
    /\ history[1].outcome # history[2].outcome
    /\ history[1].trace = history[2].trace

\* The extract response carries the extract of page id.
HasExtract(r, id) ==
    /\ "json" \in DOMAIN r
    /\ "query" \in DOMAIN r.json
    /\ "pages" \in DOMAIN r.json.query
    /\ ToString(id) \in DOMAIN r.json.query.pages
    /\ "extract" \in DOMAIN r.json.query.pages[ToString(id)]

\* C10: an ExtractResult is returned only when the extract response holds
\* the chosen page's extract; when query, pages, the chosen id's entry or
\* its extract field is missing, build ends in a failure.
C10_MissingExtractFails ==
    \A i \in OmwCalls :
        LET h == history[i] IN
        /\ Returned(h.outcome) =>
              /\ Len(h.responses) = 2
              /\ HasExtract(h.responses[2], h.frame.chosen_page_id)
        /\ ( /\ Len(h.responses) = 2
             /\ ~HasExtract(h.responses[2], h.frame.chosen_page_id) )
              => Raised(h.outcome)

C10_Witness ==
    /\ Len(history) = 2
    /\ history[1].factory = "omw"
    /\ history[2].factory = "omw"
    /\ Len(history[1].responses) = 2
    /\ Len(history[2].responses) = 2
    /\ history[1].frame.chosen_page_id = 42
    /\ history[1].responses[2] =
          Json(200, Pages([p \in {"7"} |-> [extract |-> "Extract of 7."]]))
    /\ history[1].outcome = Raise("KeyError")
    /\ history[2].responses[2] =
          Json(200, Pages([p \in {"7", "42"} |-> [title |-> "Louvre"]]))
    /\ history[2].outcome = Raise("KeyError")

====
